---- MODULE Spec2Model ----
(***************************************************************************)
(* Model of utilities/db.py: the connection config, the two database       *)
(* backends (AsyncpgDatabase over an asyncpg pool, SqlAlchemyDatabase over *)
(* an async engine) and the callers (asyncio tasks) that use one backend   *)
(* instance.  Every await of the source is a step boundary; the code       *)
(* between two awaits is one atomic step.                                  *)
(***************************************************************************)
EXTENDS Integers, Sequences, FiniteSets, TLC

\* ------------------------------------------------------------- bounds
NumTasks == 2      \* concurrent callers (asyncio tasks) sharing the instance
MaxConn == 2       \* min_connections and max_connections range over 1..MaxConn
MaxPools == 2      \* pools/engines created over the life of the instance
MaxStmts == 2      \* mutating statements issued over one behaviour
MaxBatch == 2      \* parameter tuples given to one executemany call

Tasks == 1..NumTasks
Kinds == {"asyncpg", "sqlalchemy"}
\* Constructor inputs (port, min_connections, max_connections): every pair of
\* pool sizes with the default port, and one input with a non-positive port.
ConfigInputs ==
    {<<5432, mn, mx>> : mn \in 1..MaxConn, mx \in 1..MaxConn} \cup {<<0, 1, 1>>}
NULL == 0
\* References held by the Db object and by its caller: the backend instance
\* that create() returned, and the Db object that `await Db(...)` returned.
Backend == 1
DbObject == 1
NoConn == <<0, 0>>

Max(a, b) == IF a >= b THEN a ELSE b
MinOf(S) == CHOOSE x \in S : \A y \in S : x <= y

\* ------------------------------------------------------------- config
\* DbConnectionConfig: a pydantic model whose fields are typed and defaulted
\* only; it declares no validator, so every triple of integers constructs.
DbConnectionConfig(port, mn, mx) ==
    [db_port |-> port, min_connections |-> mn, max_connections |-> mx]

\* SqlAlchemyDatabase.connect: the two numbers handed to create_async_engine.
PoolSize(c) == c.min_connections
MaxOverflow(c) == Max(0, c.max_connections - c.min_connections)

\* The number of connections one pool hands out at the same time:
\* asyncpg max_size, or the engine's pool_size + max_overflow.
Capacity(k, c) ==
    IF k = "asyncpg" THEN c.max_connections ELSE PoolSize(c) + MaxOverflow(c)

\* ------------------------------------------------------------- results
NoResult == [type |-> "none", msg |-> <<>>]
Ok == [type |-> "ok", msg |-> <<>>]
\* RuntimeError raised by every query operation when the handle is None.
NotConnected(k) ==
    IF k = "asyncpg"
    THEN [type |-> "RuntimeError", msg |-> <<"Database not connected.">>]
    ELSE [type |-> "RuntimeError",
          msg |-> <<"Database not connected.",
                    "Use SqlAlchemyDatabase.create() to create an instance.">>]
\* Errors of the drivers, passed through.
DriverError == [type |-> "DriverError", msg |-> <<>>]
InterfaceError == [type |-> "InterfaceError", msg |-> <<"pool is closing">>]
ValueError == [type |-> "ValueError", msg |-> <<"min_size is greater than max_size">>]
ConnectionError == [type |-> "ConnectionError", msg |-> <<>>]
PoolTimeoutError == [type |-> "TimeoutError", msg |-> <<"QueuePool limit reached">>]
\* Raised by Db._initialize_database when the engine backend is asked for and
\* the sqlalchemy import failed; raised by the `database` property while the
\* backend reference is None.
ImportError == [type |-> "ImportError", msg |-> <<"SQLAlchemy is not installed.">>]
NotInitialized == [type |-> "RuntimeError", msg |-> <<"Database not initialized.">>]

VARIABLES
    HAS_SQLALCHEMY,  \* whether the sqlalchemy import at module load succeeded
    use_sql_alchemy, \* the flag given to Db(...)
    db_instance,     \* Db._db_instance: NULL or the backend instance (1)
    db_handle,       \* what `await Db(...)` gave its caller: NULL or the Db object (1)
    kind,          \* which backend class the instance is ("none": no instance yet)
    cfg,           \* self.config
    pool,          \* self.pool / self.engine: NULL or the id of a pool
    poolsCreated,  \* pools/engines created so far (ids 1..poolsCreated)
    poolState,     \* per pool id: "none", "open", "closing", "closed"
    table,         \* the database: ids of the statements whose effect is committed
    nextStmt,      \* id of the next mutating statement
    task           \* per caller: where it is in its current operation; step
                   \* counts the driver calls of the operation that succeeded

dbvars == <<HAS_SQLALCHEMY, use_sql_alchemy, db_instance, db_handle>>
vars == <<dbvars, kind, cfg, pool, poolsCreated, poolState, table, nextStmt, task>>

IdleTask ==
    [pc |-> "idle", op |-> "none", result |-> NoResult,
     txConn |-> NoConn, opConn |-> NoConn,
     stmts |-> <<>>, step |-> 0, pending |-> {}, txPending |-> {}]

\* A backend instance constructed directly (AsyncpgDatabase(config) or
\* SqlAlchemyDatabase(config), which needs the sqlalchemy import): no Db object.
Init ==
    /\ HAS_SQLALCHEMY = TRUE
    /\ use_sql_alchemy = FALSE
    /\ db_instance = NULL
    /\ db_handle = NULL
    /\ kind \in Kinds
    /\ cfg \in {DbConnectionConfig(i[1], i[2], i[3]) : i \in ConfigInputs}
    /\ pool = NULL
    /\ poolsCreated = 0
    /\ poolState = [p \in 1..MaxPools |-> "none"]
    /\ table = {}
    /\ nextStmt = 1
    /\ task = [t \in Tasks |-> IdleTask]

is_connected == pool # NULL

\* Slots of pool p checked out by some caller (by a scope or by an operation).
Held(p) ==
    {c \in 1..Capacity(kind, cfg) :
        \E t \in Tasks : task[t].txConn = <<p, c>> \/ task[t].opConn = <<p, c>>}
Free(p) == (1..Capacity(kind, cfg)) \ Held(p)
\* Callers that hold a connection of pool p for an operation / for a scope.
OpHolders(p) == {t \in Tasks : task[t].opConn[1] = p /\ task[t].opConn[2] > 0}
TxHolders(p) == {t \in Tasks : task[t].txConn[1] = p /\ task[t].txConn[2] > 0}
HolderCount(p) == Cardinality(OpHolders(p)) + Cardinality(TxHolders(p))
InScope(t) == task[t].op = "transaction" /\ task[t].pc \in {"txBody", "waiting", "running", "committing"}

\* Raised as it would be if the error left the operation without the
\* `async with` block releasing the operation's connection (C11 must tell the
\* two apart).
Raised_KeepConnection(rec, err) ==
    [rec EXCEPT !.pc = "done", !.result = err, !.pending = {}, !.txPending = {}]

\* An exception leaves the operation (and the scope around it, whose
\* transaction rolls back): every connection the caller holds is released.
Raised(rec, err) ==
    [rec EXCEPT !.pc = "done", !.result = err, !.opConn = NoConn,
                !.txConn = NoConn, !.pending = {}, !.txPending = {}]
Returned(rec) ==
    [rec EXCEPT !.pc = "done", !.result = Ok, !.opConn = NoConn,
                !.txConn = NoConn, !.pending = {}, !.txPending = {}]


\* ------------------------------------------------------------- acquisition
\* AcquireOp as it would be if an exhausted pool failed the caller instead of
\* suspending it (C9 must tell the two apart).
AcquireOp_FailWhenExhausted(rec, p) ==
    IF kind = "asyncpg" /\ poolState[p] # "open" THEN Raised(rec, InterfaceError)
    ELSE IF Free(p) = {} THEN Raised(rec, PoolTimeoutError)
    ELSE [rec EXCEPT !.pc = "running", !.opConn = <<p, MinOf(Free(p))>>]

\* `async with self.pool.acquire()` / the session's first execute: the caller
\* gets a free connection of pool p at once, or is suspended until one is
\* released.  asyncpg refuses to acquire from a pool that is closing.
AcquireOp(rec, p) ==
    IF kind = "asyncpg" /\ poolState[p] # "open" THEN Raised(rec, InterfaceError)
    ELSE IF Free(p) = {} THEN [rec EXCEPT !.pc = "waiting", !.opConn = <<p, 0>>]
    ELSE [rec EXCEPT !.pc = "running", !.opConn = <<p, MinOf(Free(p))>>]

\* AsyncpgDatabase._transaction: the scope acquires its own connection and
\* opens a transaction on it.
AcquireTx(rec, p) ==
    IF poolState[p] # "open" THEN Raised(rec, InterfaceError)
    ELSE IF Free(p) = {} THEN [rec EXCEPT !.pc = "txWaiting", !.txConn = <<p, 0>>]
    ELSE [rec EXCEPT !.pc = "txBody", !.txConn = <<p, MinOf(Free(p))>>]

Connecting == {t \in Tasks : task[t].pc = "connecting"}

\* Caller t is suspended in `await asyncpg.create_pool(...)`, which opens the
\* pool's first connections: the only place where connect() talks to the
\* database server.
InHandshake(t) == task[t].pc = "connecting"

\* ------------------------------------------------------------- lifecycle
\* ConnectCall as it would be without the `if self.pool is None` test: every
\* call creates a pool (C5 must tell the two apart).
ConnectCall_NoGuard(t) ==
    /\ task[t].pc = "idle"
    /\ LET rec == [IdleTask EXCEPT !.op = "connect"] IN
       IF kind = "sqlalchemy"
       THEN /\ poolsCreated < MaxPools
            /\ poolsCreated' = poolsCreated + 1
            /\ pool' = poolsCreated + 1
            /\ poolState' = [poolState EXCEPT ![poolsCreated + 1] = "open"]
            /\ task' = [task EXCEPT ![t] = Returned([rec EXCEPT !.step = 1])]
       ELSE IF cfg.min_connections > cfg.max_connections
       THEN /\ task' = [task EXCEPT ![t] = Raised(rec, ValueError)]
            /\ UNCHANGED <<pool, poolsCreated, poolState>>
       ELSE /\ poolsCreated + Cardinality(Connecting) < MaxPools
            /\ task' = [task EXCEPT ![t] = [rec EXCEPT !.pc = "connecting"]]
            /\ UNCHANGED <<pool, poolsCreated, poolState>>
    /\ UNCHANGED <<dbvars, kind, cfg, table, nextStmt>>

\* ConnectCall as it would be if a closed instance stayed closed: connect()
\* after a close() returns without creating a pool (C15 must tell the two apart).
ConnectCall_Latched(t) ==
    /\ task[t].pc = "idle"
    /\ LET rec == [IdleTask EXCEPT !.op = "connect"] IN
       IF pool # NULL \/ poolsCreated >= 1
       THEN /\ task' = [task EXCEPT ![t] = Returned(rec)]
            /\ UNCHANGED <<pool, poolsCreated, poolState>>
       ELSE IF kind = "sqlalchemy"
       THEN /\ poolsCreated < MaxPools
            /\ poolsCreated' = poolsCreated + 1
            /\ pool' = poolsCreated + 1
            /\ poolState' = [poolState EXCEPT ![poolsCreated + 1] = "open"]
            /\ task' = [task EXCEPT ![t] = Returned([rec EXCEPT !.step = 1])]
       ELSE IF cfg.min_connections > cfg.max_connections
       THEN /\ task' = [task EXCEPT ![t] = Raised(rec, ValueError)]
            /\ UNCHANGED <<pool, poolsCreated, poolState>>
       ELSE /\ poolsCreated + Cardinality(Connecting) < MaxPools
            /\ task' = [task EXCEPT ![t] = [rec EXCEPT !.pc = "connecting"]]
            /\ UNCHANGED <<pool, poolsCreated, poolState>>
    /\ UNCHANGED <<dbvars, kind, cfg, table, nextStmt>>

\* connect(): `if self.pool is None:` create the pool.  asyncpg.create_pool
\* validates the sizes when called and opens connections when awaited;
\* create_async_engine only builds the engine object (no I/O, no await).
ConnectCall(t) ==
    /\ task[t].pc = "idle"
    /\ LET rec == [IdleTask EXCEPT !.op = "connect"] IN
       IF pool # NULL
       THEN /\ task' = [task EXCEPT ![t] = Returned(rec)]
            /\ UNCHANGED <<pool, poolsCreated, poolState>>
       ELSE IF kind = "sqlalchemy"
       THEN /\ poolsCreated < MaxPools
            /\ poolsCreated' = poolsCreated + 1
            /\ pool' = poolsCreated + 1
            /\ poolState' = [poolState EXCEPT ![poolsCreated + 1] = "open"]
            /\ task' = [task EXCEPT ![t] = Returned([rec EXCEPT !.step = 1])]
       ELSE IF cfg.min_connections > cfg.max_connections
       THEN /\ task' = [task EXCEPT ![t] = Raised(rec, ValueError)]
            /\ UNCHANGED <<pool, poolsCreated, poolState>>
       ELSE /\ poolsCreated + Cardinality(Connecting) < MaxPools
            /\ task' = [task EXCEPT ![t] = [rec EXCEPT !.pc = "connecting"]]
            /\ UNCHANGED <<pool, poolsCreated, poolState>>
    /\ UNCHANGED <<dbvars, kind, cfg, table, nextStmt>>

\* `self.pool = await asyncpg.create_pool(...)` completes: the handle is
\* assigned whatever it held when the call started.  When the connect() was
\* awaited by Db._initialize_database, create() returns the instance, it is
\* stored in _db_instance and _create returns the Db object, with no await
\* that suspends in between.
ConnectOk(t) ==
    /\ task[t].pc = "connecting"
    /\ poolsCreated' = poolsCreated + 1
    /\ pool' = poolsCreated + 1
    /\ poolState' = [poolState EXCEPT ![poolsCreated + 1] = "open"]
    /\ task' = [task EXCEPT ![t] = Returned([task[t] EXCEPT !.step = 1])]
    /\ IF task[t].op = "Db"
       THEN /\ db_instance' = Backend
            /\ db_handle' = DbObject
            /\ UNCHANGED <<HAS_SQLALCHEMY, use_sql_alchemy>>
       ELSE UNCHANGED dbvars
    /\ UNCHANGED <<kind, cfg, table, nextStmt>>

\* ConnectFail as it would be if the handle were assigned a pool object before
\* the handshake and kept it when the handshake fails (C19 must tell the two
\* apart).
ConnectFail_KeepsPool(t) ==
    /\ task[t].pc = "connecting"
    /\ poolsCreated' = poolsCreated + 1
    /\ pool' = poolsCreated + 1
    /\ poolState' = [poolState EXCEPT ![poolsCreated + 1] = "closed"]
    /\ task' = [task EXCEPT ![t] = Raised(task[t], ConnectionError)]
    /\ UNCHANGED <<dbvars, kind, cfg, table, nextStmt>>

\* The handshake fails: the error leaves connect() before the assignment.
ConnectFail(t) ==
    /\ task[t].pc = "connecting"
    /\ task' = [task EXCEPT ![t] = Raised(task[t], ConnectionError)]
    /\ UNCHANGED <<dbvars, kind, cfg, pool, poolsCreated, poolState, table, nextStmt>>

\* CloseCall as it would be if close() on a null handle raised like a query
\* does (C6 must tell the two apart).
CloseCall_RaiseOnNull(t) ==
    /\ task[t].pc = "idle"
    /\ LET rec == [IdleTask EXCEPT !.op = "close"] IN
       IF pool = NULL
       THEN /\ task' = [task EXCEPT ![t] = Raised(rec, NotConnected(kind))]
            /\ UNCHANGED poolState
       ELSE /\ task' = [task EXCEPT ![t] =
                          [rec EXCEPT !.pc = "closing", !.opConn = <<pool, 0>>]]
            /\ poolState' = [poolState EXCEPT ![pool] =
                               IF kind = "asyncpg" THEN "closing" ELSE @]
    /\ UNCHANGED <<dbvars, kind, cfg, pool, poolsCreated, table, nextStmt>>

\* close(): `if self.pool:` start closing it.  asyncpg's Pool.close() marks
\* the pool closing at once and waits for every connection to be released.
CloseCall(t) ==
    /\ task[t].pc = "idle"
    /\ LET rec == [IdleTask EXCEPT !.op = "close"] IN
       IF pool = NULL
       THEN /\ task' = [task EXCEPT ![t] = Returned(rec)]
            /\ UNCHANGED poolState
       ELSE /\ task' = [task EXCEPT ![t] =
                          [rec EXCEPT !.pc = "closing", !.opConn = <<pool, 0>>]]
            /\ poolState' = [poolState EXCEPT ![pool] =
                               IF kind = "asyncpg" THEN "closing" ELSE @]
    /\ UNCHANGED <<dbvars, kind, cfg, pool, poolsCreated, table, nextStmt>>

\* CloseFinish as it would be without the `self.pool = None` assignment (C4
\* must tell the two apart).
CloseFinish_KeepHandle(t) ==
    /\ task[t].pc = "closing"
    /\ LET p == task[t].opConn[1] IN
       /\ kind = "asyncpg" => Held(p) = {}
       /\ poolState' = [poolState EXCEPT ![p] = "closed"]
    /\ task' = [task EXCEPT ![t] = Returned([task[t] EXCEPT !.step = 1])]
    /\ UNCHANGED <<dbvars, kind, cfg, pool, poolsCreated, table, nextStmt>>

\* `await self.pool.close()` / `await self.engine.dispose()` returns, then
\* `self.pool = None`.
CloseFinish(t) ==
    /\ task[t].pc = "closing"
    /\ LET p == task[t].opConn[1] IN
       /\ kind = "asyncpg" => Held(p) = {}
       /\ poolState' = [poolState EXCEPT ![p] = "closed"]
    /\ pool' = NULL
    /\ task' = [task EXCEPT ![t] = Returned([task[t] EXCEPT !.step = 1])]
    /\ UNCHANGED <<dbvars, kind, cfg, poolsCreated, table, nextStmt>>

\* ------------------------------------------------------------- queries
\* Issue as it would be if the None check returned instead of raising (C3
\* must tell the two apart).
Issue_NoRaise(t, o, n) ==
    /\ task[t].pc = "idle"
    /\ LET rec == [IdleTask EXCEPT !.op = o] IN
       IF pool = NULL
       THEN /\ task' = [task EXCEPT ![t] = Returned(rec)]
            /\ UNCHANGED nextStmt
       ELSE /\ nextStmt + n - 1 <= MaxStmts
            /\ nextStmt' = nextStmt + n
            /\ task' = [task EXCEPT ![t] =
                  AcquireOp([rec EXCEPT !.stmts = [i \in 1..n |-> nextStmt + i - 1]],
                            pool)]
    /\ UNCHANGED <<dbvars, kind, cfg, pool, poolsCreated, poolState, table>>

\* The head of _fetch/_fetchrow/_execute/_executemany: the None check, then
\* the acquisition.  n is the number of mutating statements the call issues.
Issue(t, o, n) ==
    /\ task[t].pc = "idle"
    /\ LET rec == [IdleTask EXCEPT !.op = o] IN
       IF pool = NULL
       THEN /\ task' = [task EXCEPT ![t] = Raised(rec, NotConnected(kind))]
            /\ UNCHANGED nextStmt
       ELSE /\ nextStmt + n - 1 <= MaxStmts
            /\ nextStmt' = nextStmt + n
            /\ task' = [task EXCEPT ![t] =
                  AcquireOp([rec EXCEPT !.stmts = [i \in 1..n |-> nextStmt + i - 1]],
                            pool)]
    /\ UNCHANGED <<dbvars, kind, cfg, pool, poolsCreated, poolState, table>>

Fetch(t) == Issue(t, "fetch", 0)
FetchRow(t) == Issue(t, "fetchrow", 0)
Execute(t) == Issue(t, "execute", 1)
ExecuteMany(t) == \E n \in 1..MaxBatch : Issue(t, "executemany", n)

\* A suspended acquisition gets a connection (or, asyncpg, finds the pool closing).
Resume(t) ==
    /\ task[t].pc = "waiting"
    /\ LET p == task[t].opConn[1] IN
       /\ (kind = "asyncpg" /\ poolState[p] # "open") \/ Free(p) # {}
       /\ task' = [task EXCEPT ![t] = AcquireOp(task[t], p)]
    /\ UNCHANGED <<dbvars, kind, cfg, pool, poolsCreated, poolState, table, nextStmt>>

\* The engine's QueuePool gives up a checkout after pool_timeout (its default:
\* connect() passes none); asyncpg's acquire() is called without a timeout.
PoolTimeout(t) ==
    /\ kind = "sqlalchemy"
    /\ task[t].pc = "waiting"
    /\ task' = [task EXCEPT ![t] = Raised(task[t], PoolTimeoutError)]
    /\ UNCHANGED <<dbvars, kind, cfg, pool, poolsCreated, poolState, table, nextStmt>>

\* ------------------------------------------------------------- transaction scope
\* `async with db.transaction():` entered.  The asyncpg scope acquires a
\* connection and begins a transaction on it; the engine scope opens a
\* session and begins it (a session checks a connection out only when a
\* statement is executed on it, and none ever is: the scope yields nothing).
\* The body of the scope is the usage example's: two execute() calls.
TxEnter(t) ==
    /\ task[t].pc = "idle"
    /\ LET rec == [IdleTask EXCEPT !.op = "transaction"] IN
       IF pool = NULL
       THEN /\ task' = [task EXCEPT ![t] = Raised(rec, NotConnected(kind))]
            /\ UNCHANGED nextStmt
       ELSE /\ nextStmt + 1 <= MaxStmts
            /\ nextStmt' = nextStmt + 2
            /\ LET rec2 == [rec EXCEPT !.stmts = <<nextStmt, nextStmt + 1>>] IN
               task' = [task EXCEPT ![t] =
                          IF kind = "asyncpg" THEN AcquireTx(rec2, pool)
                          ELSE [rec2 EXCEPT !.pc = "txBody"]]
    /\ UNCHANGED <<dbvars, kind, cfg, pool, poolsCreated, poolState, table>>

TxResume(t) ==
    /\ task[t].pc = "txWaiting"
    /\ LET p == task[t].txConn[1] IN
       /\ poolState[p] # "open" \/ Free(p) # {}
       /\ task' = [task EXCEPT ![t] = AcquireTx(task[t], p)]
    /\ UNCHANGED <<dbvars, kind, cfg, pool, poolsCreated, poolState, table, nextStmt>>

\* `await db.execute(...)` inside the scope: the same _execute as outside,
\* with its own None check and its own acquisition.
InnerExecute(t) ==
    /\ task[t].pc = "txBody"
    /\ task[t].step < Len(task[t].stmts)
    /\ task' = [task EXCEPT ![t] =
                  IF pool = NULL THEN Raised(task[t], NotConnected(kind))
                  ELSE AcquireOp(task[t], pool)]
    /\ UNCHANGED <<dbvars, kind, cfg, pool, poolsCreated, poolState, table, nextStmt>>

\* The scope ends normally: its transaction commits, its connection goes back.
TxExit(t) ==
    /\ task[t].pc = "txBody"
    /\ task[t].step = Len(task[t].stmts)
    /\ table' = table \cup task[t].txPending
    /\ task' = [task EXCEPT ![t] = Returned(task[t])]
    /\ UNCHANGED <<dbvars, kind, cfg, pool, poolsCreated, poolState, nextStmt>>

\* ------------------------------------------------------------- statements
Reads == {"fetch", "fetchrow"}
Range(s) == {s[i] : i \in 1..Len(s)}
Prefix(s, k) == {s[i] : i \in 1..k}

\* The statement on the operation's connection succeeds.
\*   asyncpg: a statement on a connection with no open transaction commits
\*     by itself; executemany is one driver call for the whole batch.
\*   engine: the effect stays pending in the operation's session until
\*     session.commit(); _executemany executes one tuple per step.
StmtOk(t) ==
    /\ task[t].pc = "running"
    /\ LET rec == task[t]
           e == rec.stmts[rec.step + 1]
       IN
       IF rec.op \in Reads
       THEN /\ task' = [task EXCEPT ![t] = Returned(rec)]
            /\ UNCHANGED table
       ELSE IF kind = "asyncpg" /\ rec.op = "executemany"
       THEN /\ table' = table \cup Range(rec.stmts)
            /\ task' = [task EXCEPT ![t] = Returned([rec EXCEPT !.step = Len(rec.stmts)])]
       ELSE IF kind = "asyncpg"
       THEN /\ table' = IF rec.opConn = rec.txConn THEN table ELSE table \cup {e}
            /\ task' = [task EXCEPT ![t] =
                  IF rec.op = "transaction"
                  THEN [rec EXCEPT !.pc = "txBody", !.opConn = NoConn, !.step = @ + 1,
                                   !.txPending = IF rec.opConn = rec.txConn
                                                 THEN @ \cup {e} ELSE @]
                  ELSE Returned([rec EXCEPT !.step = @ + 1])]
       ELSE /\ task' = [task EXCEPT ![t] =
                  [rec EXCEPT !.pending = @ \cup {e}, !.step = @ + 1,
                              !.pc = IF rec.op = "executemany" /\ rec.step + 1 < Len(rec.stmts)
                                     THEN "running" ELSE "committing"]]
            /\ UNCHANGED table
    /\ UNCHANGED <<dbvars, kind, cfg, pool, poolsCreated, poolState, nextStmt>>

\* `await session.commit()`: the session's pending effects become visible,
\* then the session closes and its connection goes back.
Commit(t) ==
    /\ task[t].pc = "committing"
    /\ table' = table \cup task[t].pending
    /\ task' = [task EXCEPT ![t] =
                  IF task[t].op = "transaction"
                  THEN [task[t] EXCEPT !.pc = "txBody", !.opConn = NoConn, !.pending = {}]
                  ELSE Returned(task[t])]
    /\ UNCHANGED <<dbvars, kind, cfg, pool, poolsCreated, poolState, nextStmt>>

\* StmtError as it would be if the operation caught the driver's error and
\* raised a RuntimeError of its own in its place (C16 must tell the two apart).
StmtError_Translated(t) ==
    /\ task[t].pc = "running"
    /\ \E k \in 0..(IF kind = "asyncpg" /\ task[t].op = "executemany"
                    THEN Len(task[t].stmts) - 1 ELSE 0) :
          table' = table \cup Prefix(task[t].stmts, k)
    /\ task' = [task EXCEPT ![t] = Raised(task[t], NotConnected(kind))]
    /\ UNCHANGED <<dbvars, kind, cfg, pool, poolsCreated, poolState, nextStmt>>

\* StmtError as it would be if the session committed what it had executed
\* before the error leaves, e.g. a commit in a finally block (C10 must tell
\* the two apart).
StmtError_CommitPending(t) ==
    /\ task[t].pc = "running"
    /\ table' = table \cup task[t].pending
    /\ task' = [task EXCEPT ![t] = Raised(task[t], DriverError)]
    /\ UNCHANGED <<dbvars, kind, cfg, pool, poolsCreated, poolState, nextStmt>>

\* The driver raises for the statement: the error leaves the operation; the
\* session's pending effects are dropped with the session.  What a failed
\* asyncpg executemany leaves behind is the driver's (version's) choice: any
\* proper prefix of the batch.
StmtError(t) ==
    /\ task[t].pc = "running"
    /\ \E k \in 0..(IF kind = "asyncpg" /\ task[t].op = "executemany"
                    THEN Len(task[t].stmts) - 1 ELSE 0) :
          table' = table \cup Prefix(task[t].stmts, k)
    /\ task' = [task EXCEPT ![t] = Raised(task[t], DriverError)]
    /\ UNCHANGED <<dbvars, kind, cfg, pool, poolsCreated, poolState, nextStmt>>

\* The caller has the outcome and goes on to its next call.
Return(t) ==
    /\ task[t].pc = "done"
    /\ task' = [task EXCEPT ![t] = IdleTask]
    /\ UNCHANGED <<dbvars, kind, cfg, pool, poolsCreated, poolState, table, nextStmt>>

\* ------------------------------------------------------------- factory
\* BackendFor as it would be if the flag selected the other class (C13 must
\* tell the two apart).
BackendFor_Inverted(flag) == IF flag THEN "asyncpg" ELSE "sqlalchemy"

\* Db._initialize_database: the class the flag selects.
BackendFor(flag) == IF flag THEN "sqlalchemy" ELSE "asyncpg"

\* `await Db(config, use_sql_alchemy)`: __new__ returns the coroutine _create,
\* which makes the Db object with _db_instance = None and awaits
\* _initialize_database: ImportError when the engine backend is asked for
\* without sqlalchemy, else <class>.create(config), that is the constructor
\* and `await instance.connect()`.  The engine's connect() does not suspend,
\* so the Db object is returned in the same step; the native connect()
\* suspends in create_pool.  An error leaves _create before the Db object is
\* returned, and the object is dropped.
DbCreate(t) ==
    /\ task[t].pc = "idle"
    /\ db_handle = NULL
    /\ LET rec == [IdleTask EXCEPT !.op = "Db"] IN
       IF use_sql_alchemy /\ ~HAS_SQLALCHEMY
       THEN /\ task' = [task EXCEPT ![t] = Raised(rec, ImportError)]
            /\ UNCHANGED <<db_instance, db_handle, kind, pool, poolsCreated, poolState>>
       ELSE /\ kind' = BackendFor(use_sql_alchemy)
            /\ IF kind' = "sqlalchemy"
               THEN /\ poolsCreated < MaxPools
                    /\ poolsCreated' = poolsCreated + 1
                    /\ pool' = poolsCreated + 1
                    /\ poolState' = [poolState EXCEPT ![poolsCreated + 1] = "open"]
                    /\ db_instance' = Backend
                    /\ db_handle' = DbObject
                    /\ task' = [task EXCEPT ![t] = Returned([rec EXCEPT !.step = 1])]
               ELSE IF cfg.min_connections > cfg.max_connections
               THEN /\ task' = [task EXCEPT ![t] = Raised(rec, ValueError)]
                    /\ UNCHANGED <<db_instance, db_handle, pool, poolsCreated, poolState>>
               ELSE /\ poolsCreated + Cardinality(Connecting) < MaxPools
                    /\ task' = [task EXCEPT ![t] = [rec EXCEPT !.pc = "connecting"]]
                    /\ UNCHANGED <<db_instance, db_handle, pool, poolsCreated, poolState>>
    /\ UNCHANGED <<HAS_SQLALCHEMY, use_sql_alchemy, cfg, table, nextStmt>>

\* The errors with which connect() of class k can end for config c: the native
\* pool refuses min_size > max_size and else fails only in the handshake; the
\* engine's connect() has no failing step.
ConnectFailures(k, c) ==
    IF k = "asyncpg"
    THEN IF c.min_connections > c.max_connections THEN {ValueError} ELSE {ConnectionError}
    ELSE {}

\* The operations of the contract as the backend instance offers them.
BackendCall(t) ==
    \/ ConnectCall(t) \/ CloseCall(t)
    \/ Fetch(t) \/ FetchRow(t) \/ Execute(t) \/ ExecuteMany(t)
    \/ TxEnter(t) \/ InnerExecute(t)

\* DbCall as it would be if the Db object refused the call itself whenever the
\* backend is not connected, instead of forwarding it (C14 must tell the two
\* apart).
DbCall_RefuseUnconnected(t) ==
    /\ db_handle # NULL
    /\ IF db_instance = NULL \/ pool = NULL
       THEN /\ task[t].pc \in {"idle", "txBody"}
            /\ task' = [task EXCEPT ![t] = Raised(task[t], NotInitialized)]
            /\ UNCHANGED <<dbvars, kind, cfg, pool, poolsCreated, poolState, table, nextStmt>>
       ELSE BackendCall(t)

\* An operation invoked on the Db object: __getattr__ reads the `database`
\* property, which raises while _db_instance is None and else returns the
\* backend, whose bound method is what the caller invokes.
DbCall(t) ==
    /\ db_handle # NULL
    /\ IF db_instance = NULL
       THEN /\ task[t].pc \in {"idle", "txBody"}
            /\ task' = [task EXCEPT ![t] = Raised(task[t], NotInitialized)]
            /\ UNCHANGED <<dbvars, kind, cfg, pool, poolsCreated, poolState, table, nextStmt>>
       ELSE BackendCall(t)

\* What one caller can do by itself, and what needs another caller to have
\* taken or released a connection.
Step(t) ==
    \/ ConnectCall(t) \/ ConnectOk(t) \/ ConnectFail(t)
    \/ CloseCall(t) \/ CloseFinish(t)
    \/ Fetch(t) \/ FetchRow(t) \/ Execute(t) \/ ExecuteMany(t)
    \/ TxEnter(t) \/ InnerExecute(t) \/ TxExit(t)
    \/ StmtOk(t) \/ Commit(t) \/ StmtError(t)
    \/ Return(t)
Contend(t) == Resume(t) \/ PoolTimeout(t) \/ TxResume(t)

\* Any number of callers share the instance and interleave at every await.
Next == \E t \in Tasks : Step(t) \/ Contend(t)
Spec == Init /\ [][Next]_vars

\* One caller uses the instance, one call after the other.
SeqNext == Step(1)
SeqSpec == Init /\ [][SeqNext]_vars

\* Callers connect the instance and then only query it concurrently: no
\* close() and no transaction scope while queries are in flight.  A read
\* (fetch) and a write (execute) stand for the four query operations, whose
\* acquisition code is the same.
PoolNext ==
    \E t \in Tasks :
        \/ ConnectCall(t) \/ ConnectOk(t) \/ ConnectFail(t)
        \/ Fetch(t) \/ Execute(t)
        \/ Resume(t) \/ PoolTimeout(t)
        \/ StmtOk(t) \/ Commit(t) \/ StmtError(t)
        \/ Return(t)
PoolSpec == Init /\ [][PoolNext]_vars

\* The instance is made by the factory: one caller awaits Db(config, flag)
\* and then uses the Db object it got, one call after the other.
DbInit ==
    /\ HAS_SQLALCHEMY \in BOOLEAN
    /\ use_sql_alchemy \in BOOLEAN
    /\ db_instance = NULL
    /\ db_handle = NULL
    /\ kind = "none"
    /\ cfg \in {DbConnectionConfig(i[1], i[2], i[3]) : i \in ConfigInputs}
    /\ pool = NULL
    /\ poolsCreated = 0
    /\ poolState = [p \in 1..MaxPools |-> "none"]
    /\ table = {}
    /\ nextStmt = 1
    /\ task = [t \in Tasks |-> IdleTask]
DbNext ==
    \/ DbCreate(1) \/ DbCall(1)
    \/ ConnectOk(1) \/ ConnectFail(1) \/ CloseFinish(1)
    \/ TxExit(1) \/ StmtOk(1) \/ Commit(1) \/ StmtError(1)
    \/ Return(1)
DbSpec == DbInit /\ [][DbNext]_vars

\* ============================================================= claims
QueryOps == {"fetch", "fetchrow", "execute", "executemany"}
ScopedOps == QueryOps \cup {"transaction"}
\* The step in which caller t invokes operation o / in which its call ends.
Called(t, o) == task[t].pc = "idle" /\ task'[t].pc # "idle" /\ task'[t].op = o
Finished(t, o) == task[t].pc # "done" /\ task'[t].pc = "done" /\ task'[t].op = o
\* The call ended at once and touched neither a connection nor the database.
Untouched(t) ==
    /\ task'[t].pc = "done"
    /\ task'[t].opConn = NoConn /\ task'[t].txConn = NoConn
    /\ UNCHANGED <<pool, poolsCreated, poolState, table, nextStmt>>

\* The callers that hold a connection of pool p after the step.
HoldersAfter(p) ==
    {u \in Tasks : \/ task'[u].opConn[1] = p /\ task'[u].opConn[2] > 0
                   \/ task'[u].txConn[1] = p /\ task'[u].txConn[2] > 0}

\* C1: a transaction scope with two execute() calls is atomic: when the second
\* statement raises a driver error that leaves the scope, neither statement's
\* effect is in the database afterwards; when both succeed, both are.
C1_TransactionAtomic ==
    \A t \in Tasks :
        task[t].op = "transaction" /\ task[t].pc = "done" =>
            /\ (task[t].result = DriverError /\ task[t].step = 1) =>
                   Range(task[t].stmts) \cap table = {}
            /\ task[t].result = Ok => Range(task[t].stmts) \subseteq table

\* C2: a statement issued while the caller's transaction scope is open runs on
\* the connection/session the scope acquired, never on another one of the pool.
C2_ScopeConnection ==
    \A t \in Tasks :
        InScope(t) /\ task[t].pc \in {"running", "committing"} =>
            task[t].opConn = task[t].txConn

\* C3 as stated: on a null handle every query operation and transaction fails
\* with the not-connected error, touching no connection, and the failure is the
\* same whichever backend the instance is.
C3_NotConnectedIdentical ==
    [][\A t \in Tasks : \A o \in ScopedOps :
          (Called(t, o) /\ ~is_connected) =>
              /\ Untouched(t)
              /\ \A k \in Kinds : task'[t].result = NotConnected(k)]_vars

\* C3 as amended: on a null handle every query operation and transaction fails,
\* touching no connection, with a RuntimeError whose message starts
\* "Database not connected." in both backends (the rest of the message differs).
C3_NotConnectedSameType ==
    [][\A t \in Tasks : \A o \in ScopedOps :
          (Called(t, o) /\ ~is_connected) =>
              /\ Untouched(t)
              /\ task'[t].result.type = "RuntimeError"
              /\ Head(task'[t].result.msg) = "Database not connected."]_vars

\* A transaction entered after close() failed with the backend's not-connected error.
C3_Witness ==
    \E t \in Tasks :
        /\ task[t].pc = "done" /\ task[t].op = "transaction"
        /\ task[t].result = NotConnected(kind)
        /\ poolsCreated >= 1 /\ pool = NULL

\* C4: is_connected is true iff the handle is non-null: false on the fresh
\* instance, true when a connect() has returned normally, false when a close()
\* has returned.
C4_IsConnectedLifecycle ==
    /\ ~is_connected
    /\ [](is_connected <=> pool # NULL)
    /\ [][\A t \in Tasks :
            /\ (Finished(t, "connect") /\ task'[t].result = Ok) => is_connected'
            /\ (Finished(t, "close") /\ task'[t].result = Ok) => ~is_connected']_vars

\* A close() that closed the pool has returned and the instance is not connected.
C4_Witness ==
    \E t \in Tasks :
        /\ task[t].pc = "done" /\ task[t].op = "close" /\ task[t].step = 1
        /\ ~is_connected

\* C5: with one caller at a time, connect() on a connected instance returns
\* without creating a pool and leaves the handle as it is; a pool is created
\* only while the handle is null and becomes the handle; and only close()
\* changes a non-null handle.  So between two close() calls the pool is
\* created once.
C5_ConnectIdempotent ==
    [][/\ \A t \in Tasks :
            (Called(t, "connect") /\ is_connected) =>
                /\ task'[t].result = Ok
                /\ Untouched(t)
       /\ poolsCreated' # poolsCreated =>
            /\ pool = NULL
            /\ poolsCreated' = poolsCreated + 1
            /\ pool' = poolsCreated'
       /\ (pool # NULL /\ pool' # pool) =>
            \E t \in Tasks : Finished(t, "close")]_vars

\* A connect() on the connected instance has returned as a no-op.
C5_Witness ==
    \E t \in Tasks :
        /\ task[t].pc = "done" /\ task[t].op = "connect"
        /\ task[t].result = Ok /\ task[t].step = 0
        /\ is_connected

\* C6: close() on a null handle returns normally and changes nothing; a
\* close() that finds a pool closes it, has every connection of it released
\* and clears the handle; after that every query operation fails with the
\* not-connected error.
C6_CloseIdempotentFinal ==
    [][\A t \in Tasks :
          /\ (Called(t, "close") /\ ~is_connected) =>
                /\ task'[t].result = Ok
                /\ Untouched(t)
          /\ (Finished(t, "close") /\ task[t].pc = "closing") =>
                /\ task'[t].result = Ok
                /\ ~is_connected'
                /\ poolState'[task[t].opConn[1]] = "closed"
                /\ HoldersAfter(task[t].opConn[1]) = {}
          /\ \A o \in ScopedOps :
                (Called(t, o) /\ pool = NULL /\ poolsCreated >= 1) =>
                    task'[t].result = NotConnected(kind)]_vars

\* A close() on the already closed instance has returned as a no-op.
C6_Witness ==
    \E t \in Tasks :
        /\ task[t].pc = "done" /\ task[t].op = "close"
        /\ task[t].result = Ok /\ task[t].step = 0
        /\ poolsCreated >= 1 /\ pool = NULL

\* C7: every constructed config has min_connections <= max_connections and
\* port > 0 (a constructor call with min > max yields no config).
C7_ConfigValidated ==
    /\ cfg.min_connections <= cfg.max_connections
    /\ cfg.db_port > 0

\* C8: the engine is built with pool size = min_connections and overflow =
\* max(0, max_connections - min_connections), and the connections in use at the
\* same time never exceed max_connections.
C8_EngineSizing ==
    (kind = "sqlalchemy" /\ is_connected) =>
        /\ PoolSize(cfg) = cfg.min_connections
        /\ MaxOverflow(cfg) = Max(0, cfg.max_connections - cfg.min_connections)
        /\ PoolSize(cfg) + MaxOverflow(cfg) <= cfg.max_connections
        /\ HolderCount(pool) <= cfg.max_connections

C10_ExecuteManyAtomic ==
    \A t \in Tasks :
        (kind = "sqlalchemy" /\ task[t].op = "executemany") =>
            /\ task[t].pc \in {"running", "committing"} =>
                   Range(task[t].stmts) \cap table = {}
            /\ (task[t].pc = "done" /\ task[t].result = DriverError) =>
                   Range(task[t].stmts) \cap table = {}
            /\ (task[t].pc = "done" /\ task[t].result = Ok) =>
                   Range(task[t].stmts) \subseteq table

\* The second tuple of a batch failed after the first had been executed.
C10_Witness ==
    \E t \in Tasks :
        /\ kind = "sqlalchemy" /\ task[t].op = "executemany"
        /\ task[t].pc = "done" /\ task[t].result = DriverError
        /\ task[t].step = 1 /\ Len(task[t].stmts) = 2

\* C11: scoped acquisition.  A query operation that is executing its statement
\* holds exactly one connection of the pool it acquired from; a caller whose
\* call or scope has ended, by return or by error, holds none; so when no
\* operation and no scope is in progress no connection of any pool is held.
C11_ScopedAcquisition ==
    /\ \A t \in Tasks :
          /\ task[t].pc \in {"running", "committing"} =>
                /\ task[t].opConn[1] \in 1..poolsCreated
                /\ task[t].opConn[2] \in 1..Capacity(kind, cfg)
                /\ \A p \in 1..MaxPools : (t \in OpHolders(p)) <=> (p = task[t].opConn[1])
          /\ task[t].pc \in {"idle", "done"} =>
                task[t].opConn = NoConn /\ task[t].txConn = NoConn
    /\ (\A t \in Tasks : task[t].pc \in {"idle", "done"}) =>
          \A p \in 1..MaxPools : HolderCount(p) = 0

\* A transaction scope on the connected instance was left by the driver error
\* of its second statement, and no connection is held.
C11_Witness ==
    /\ is_connected
    /\ \E t \in Tasks :
          /\ task[t].pc = "done" /\ task[t].op = "transaction"
          /\ task[t].result = DriverError /\ task[t].step = 1
    /\ \A p \in 1..MaxPools : HolderCount(p) = 0

\* C12: for both backends connect() does not return normally unless the
\* network/authentication handshake with the database succeeded: a connect()
\* that makes is_connected true was suspended in the handshake just before,
\* and a handshake that fails ends connect() with a connection error and
\* is_connected still false.
C12_ConnectNeedsHandshake ==
    [][\A t \in Tasks :
          /\ (Finished(t, "connect") /\ ~is_connected /\ is_connected') =>
                InHandshake(t)
          /\ (InHandshake(t) /\ task'[t].pc = "done" /\ task'[t].result # Ok) =>
                task'[t].result = ConnectionError /\ ~is_connected']_vars

\* C13 as stated: awaiting Db(config, flag) either fails with a failure of the
\* chosen backend's connect() and yields no Db object, or yields a Db object
\* whose backend is the engine-based one when the flag is true and the native
\* one when it is false, and which is connected when it is returned.
C13_FactoryResult ==
    [][\A t \in Tasks :
          Finished(t, "Db") =>
              LET chosen == IF use_sql_alchemy THEN "sqlalchemy" ELSE "asyncpg" IN
              IF task'[t].result = Ok
              THEN /\ db_handle' = DbObject /\ db_instance' = Backend
                   /\ kind' = chosen
                   /\ is_connected'
              ELSE /\ db_handle' = NULL
                   /\ task'[t].result \in ConnectFailures(chosen, cfg)]_vars

\* C13 as amended: as C13, with one more failure: when the flag is true and
\* sqlalchemy is not installed the await fails with ImportError, before any
\* backend is constructed.
C13_FactoryResultOrImportError ==
    [][\A t \in Tasks :
          Finished(t, "Db") =>
              LET chosen == IF use_sql_alchemy THEN "sqlalchemy" ELSE "asyncpg" IN
              IF use_sql_alchemy /\ ~HAS_SQLALCHEMY
              THEN /\ task'[t].result = ImportError
                   /\ db_handle' = NULL /\ ~is_connected'
              ELSE IF task'[t].result = Ok
              THEN /\ db_handle' = DbObject /\ db_instance' = Backend
                   /\ kind' = chosen
                   /\ is_connected'
              ELSE /\ db_handle' = NULL
                   /\ task'[t].result \in ConnectFailures(chosen, cfg)]_vars

\* Db(config, False) has returned the Db object after the native backend's handshake.
C13_Witness ==
    \E t \in Tasks :
        /\ task[t].pc = "done" /\ task[t].op = "Db" /\ task[t].result = Ok
        /\ ~use_sql_alchemy /\ kind = "asyncpg"
        /\ db_handle = DbObject /\ is_connected

\* The step in which caller t invokes an operation of the contract: from idle,
\* or an execute() from the body of its open scope.
Invoked(t) ==
    \/ task[t].pc = "idle" /\ task'[t].pc # "idle" /\ task'[t].op # "Db"
    \/ /\ task[t].pc = "txBody" /\ task'[t].pc # "txBody"
       /\ task[t].step < Len(task[t].stmts)

\* C14: once the factory has returned the Db object its backend reference is
\* the backend and stays so, also after close(); no call ends with the
\* "Database not initialized." error; every operation invoked on the Db object
\* is a step of the same operation of the backend (same result or error, same
\* state change); and no operation changes a field of the Db object.
C14_ProxyTransparent ==
    /\ [](db_handle # NULL => db_instance = Backend)
    /\ [](\A t \in Tasks : task[t].result # NotInitialized)
    /\ [][\A t \in Tasks : (db_handle # NULL /\ Invoked(t)) => BackendCall(t)]_vars
    /\ [][db_handle # NULL => UNCHANGED <<use_sql_alchemy, db_instance, db_handle>>]_vars

\* After a close() through the Db object, a fetch through it has failed with
\* the backend's not-connected error, and the backend reference is still set.
C14_Witness ==
    /\ db_handle = DbObject /\ db_instance = Backend
    /\ poolsCreated >= 1 /\ pool = NULL
    /\ \E t \in Tasks :
          /\ task[t].pc = "done" /\ task[t].op = "fetch"
          /\ task[t].result = NotConnected(kind)

\* C15: a not-connected instance can always be connected again: while the
\* handle is null connect() can be called, whether the instance was never
\* connected or was closed; a connect() that returns normally leaves
\* is_connected true; and no query operation or transaction called while
\* is_connected is true fails with the not-connected error.  (The model
\* creates at most MaxPools pools, so it covers MaxPools connect/close cycles.)
C15_Recoverable ==
    /\ [](\A t \in Tasks :
            (~is_connected /\ task[t].pc = "idle"
                /\ poolsCreated + Cardinality(Connecting) < MaxPools) =>
                ENABLED ConnectCall(t))
    /\ [][\A t \in Tasks :
            /\ (Finished(t, "connect") /\ task'[t].result = Ok) => is_connected'
            /\ \A o \in ScopedOps :
                  (Called(t, o) /\ is_connected) =>
                      \A k \in Kinds : task'[t].result # NotConnected(k)]_vars

\* After connect, close and connect again, a query has returned normally.
C15_Witness ==
    /\ poolsCreated = 2 /\ is_connected
    /\ \E t \in Tasks :
          /\ task[t].pc = "done" /\ task[t].op \in QueryOps
          /\ task[t].result = Ok

\* C16: a query operation that is executing a statement on a connected backend
\* and ends without success ends in that very step, with the driver's error as
\* its result, having completed no further driver call, and with the handle,
\* is_connected and the pool's state as they were; and an operation goes on
\* from one driver call to the next only when the call succeeded, so no
\* statement is issued a second time.
C16_DriverErrorPassedThrough ==
    [][\A t \in Tasks :
          /\ (is_connected /\ task[t].pc = "running"
                /\ task'[t].pc = "done" /\ task'[t].result # Ok) =>
                /\ task'[t].result = DriverError
                /\ task'[t].step = task[t].step
                /\ pool' = pool /\ is_connected'
                /\ poolState' = poolState /\ poolsCreated' = poolsCreated
          /\ (task[t].pc = "running" /\ task'[t].pc = "running"
                /\ task'[t] # task[t]) =>
                task'[t].step = task[t].step + 1]_vars

\* An execute() on the connected instance has ended with the driver's error.
C16_Witness ==
    /\ is_connected
    /\ \E t \in Tasks :
          /\ task[t].pc = "done" /\ task[t].op = "execute"
          /\ task[t].result = DriverError /\ task[t].step = 0

\* C17: a statement issued inside the caller's own open transaction scope,
\* with every other caller idle, is never stuck: as long as it has not
\* completed, the caller has a step to take, for every pool size.
C17_ScopeStatementProceeds ==
    \A t \in Tasks :
        (/\ is_connected /\ InScope(t)
         /\ task[t].pc \in {"waiting", "running", "committing"}
         /\ \A u \in Tasks \ {t} : task[u].pc = "idle") =>
            ENABLED (Step(t) \/ Contend(t))

\* C18 (native backend): connect() calls that overlap on the not yet connected
\* instance create one pool between them: as long as no close() has been
\* called at most one pool has been created, and every pool that is open is
\* the one the instance holds.
C18_OverlappingConnect ==
    (kind = "asyncpg" /\ \A p \in 1..MaxPools : poolState[p] \in {"none", "open"}) =>
        /\ poolsCreated <= 1
        /\ \A p \in 1..MaxPools : poolState[p] = "open" => pool = p

\* C19 (native backend): a connect() that fails leaves the instance as it was:
\* the handle is null before and after, no pool has been created or changed
\* state, and is_connected is false; a connect() called while the handle is
\* null goes to pool creation whatever happened before (it is suspended in
\* create_pool, or create_pool refuses the sizes at once); and a connect()
\* that returns normally, as the one awaited by create(), leaves is_connected
\* true.
C19_FailedConnectLeavesNothing ==
    [][\A t \in Tasks :
          kind = "asyncpg" =>
              /\ (Finished(t, "connect") /\ task'[t].result # Ok) =>
                    /\ pool = NULL /\ pool' = NULL /\ ~is_connected'
                    /\ poolsCreated' = poolsCreated /\ poolState' = poolState
              /\ (Called(t, "connect") /\ ~is_connected) =>
                    \/ InHandshake(t)'
                    \/ task'[t].pc = "done" /\ task'[t].result = ValueError
              /\ (Finished(t, "connect") /\ task'[t].result = Ok) => is_connected']_vars

\* On an instance that was connected and closed, a connect() has failed in
\* the handshake and the instance is not connected.
C19_Witness ==
    /\ kind = "asyncpg" /\ ~is_connected /\ poolsCreated = 1
    /\ \E t \in Tasks :
          /\ task[t].pc = "done" /\ task[t].op = "connect"
          /\ task[t].result = ConnectionError
====
